---- MODULE Spec2Model ----
\* Verification model of rioc's runtime primitives:
\*   - the protocol layer chain (rioc/src/layer.rs): Layer, LayerChain
\*   - the cancellable task supervisor (rioc/src/task.rs): JobTask
\*   - the layer builder (rioc/src/layer.rs): LayerBuilder
\*   - the configuration merge (iconfig/src/lib.rs): ApplicationConfig::merge
\*   - the provider container (src/containers/basic.rs): BasicContainer
EXTENDS Integers, Sequences, FiniteSets, TLC

\* ---------------------------------------------------------------- bounds

\* Layers that LayerBuilder::build may create in one run.
NumLayers == 2
\* add_layer calls on one chain.
MaxAdds == 2
\* Handler invocations followed within one dispatch.
MaxHops == 3
\* JobTask values of one supervisor: the one JobTask::new returns and its clones.
NumJobs == 2
\* Events the task body itself sends in one run.
MaxBodySends == 2
\* Items the caller passes to send().
MaxData == 1
\* Items passed to send() in a run of a single, uncloned JobTask.
MaxItems == 2
\* LayerBuilder::build calls of one run.
MaxBuilds == 3
\* Elements of an array in a loaded document.
MaxArrayLen == 1
\* ApplicationConfig::merge calls of one run.
MaxMerges == 2
\* Threads that call into one container.
NumThreads == 2
\* register calls made on one container.
MaxRegisters == 3

\* ---------------------------------------------------------------- values

Layers == 1..NumLayers
\* Option::None for a link, head or tail.
None == 0
\* Opaque request payloads (Option<PayLoad>), as used by the tests.
Payloads == {"hello", "test"}
Directions == {"Inbound", "Outbound"}

\* Result<LayerResult, String>
Ok(direction, data) ==
    [tag |-> "Ok", direction |-> direction, data |-> data, msg |-> ""]
Err(msg) ==
    [tag |-> "Err", direction |-> "", data |-> "", msg |-> msg]
\* No dispatch has returned: none was made, or the recursion is deeper than MaxHops.
NoResult == [tag |-> "None", direction |-> "", data |-> "", msg |-> ""]
Pending == [tag |-> "Pending", direction |-> "", data |-> "", msg |-> ""]

\* What a user handler (ProtocolAware::call) may return for a request.
HandlerOutcomes ==
    {Ok(d, p) : d \in Directions, p \in Payloads} \cup {Err("handler failed")}

\* TaskEvent, by variant.
TaskEvents == {"Data", "Progress", "Done", "Cancelled", "Error", "Panic"}
TerminalEvents == {"Done", "Cancelled", "Error", "Panic"}
\* The events a task body sends here: the payload events, Error, and Done as
\* one of the events that the unit also sends on its own.
BodyEvents == {"Data", "Progress", "Error", "Done"}
Jobs == 1..NumJobs

\* Threads sharing one BasicContainer.
Threads == 1..NumThreads
\* Provider types (each is the type of its own instances) and a type that no
\* provider instantiates.
ProviderTypes == {"TestProvider", "OtherProvider"}
Types == ProviderTypes \cup {"Arc<String>"}
\* What tells two instances of one type apart.
Names == {"test_0", "test_1"}
NoInstance == "None"
Idle == [type |-> "-", name |-> "-"]
NoResolve == [thread |-> 0, type |-> "-", res |-> "-"]

VARIABLES
    built,      \* number of layers LayerBuilder::build has returned (ids 1..built)
    held,       \* layers the caller holds a SharedLayer handle to
    alive,      \* layers whose Arc allocation still has a strong owner
    lo_layer,   \* Layer.lo_layer: strong link, None or a layer
    up_layer,   \* Layer.up_layer: weak link, None or a layer (possibly expired)
    chain,      \* "live" | "dropped": the LayerChain value
    head,       \* LayerChain.head
    tail,       \* LayerChain.tail
    added,      \* layers passed to add_layer on the current chain, in order
    entry,      \* the last dispatch call: [op, layer, req]
    calls,      \* handler invocations of the last dispatch, in order
    ret,        \* what the last dispatch returned
    is_cancelled,   \* JobTask.is_cancelled, the shared AtomicBool
    job,            \* per JobTask value: "absent" | "some" | "taken" | "dropped"
                    \*   (some / taken: alive, with handle = Some / None)
    forced,         \* coroutine().cancel() was called on the unit
    pc,             \* the coroutine: "spawned" | "body" | "exited"
    events,         \* the event channel's queue
    emitted,        \* every event enqueued on the event channel so far, in order
    body_sends,     \* events the task body has sent
    data_q,         \* items waiting in the data channel, oldest first; an item
                    \* is named by the number of the send() call that passed it
    data_sent,      \* send() calls made
    force_calls,    \* calls of handle.coroutine().cancel() made by cancel()
    body_result,    \* catch_unwind's result in the unit: "none" | "Ok" | "Err"
    last_call,      \* the send or receive call that has just returned: what
                    \*   the channel call found (saw), what the method gave (res)
    hanlde_inbound,     \* LayerBuilder.hanlde_inbound is Some
    handle_outbound,    \* LayerBuilder.handle_outbound is Some
    build_log,          \* number and result of the LayerBuilder::build calls
    config,         \* ApplicationConfig values: self before merge (base), the
                    \*   argument (other), self now (value), merge calls made
    by_type,        \* BasicContainer.by_type: the instance stored for a type
    pending,        \* per thread: the instance its register call has made
                    \*   and not yet inserted
    inserted,       \* per type: the instances inserted so far, in order
    resolved        \* the resolve call that has just returned

layerVars == <<built, held, alive, lo_layer, up_layer, chain, head, tail, added,
               entry, calls, ret>>
taskVars == <<is_cancelled, job, forced, pc, events, emitted, body_sends,
              data_q, data_sent, force_calls, body_result, last_call>>
builderVars == <<hanlde_inbound, handle_outbound, build_log>>
containerVars == <<by_type, pending, inserted, resolved>>
vars == <<layerVars, taskVars, builderVars, config, containerVars>>

structure == <<built, held, alive, lo_layer, up_layer, chain, head, tail, added>>
dispatch == <<entry, calls, ret>>

NoEntry == [op |-> "none", layer |-> None, req |-> ""]

\* ---------------------------------------------------------------- ownership

\* Variant: the lower links do not count, as if lo_layer were a Weak as well.
StrongCountNoLower(l, A, h, hd, tl, lo) ==
    (IF l \in h THEN 1 ELSE 0) + (IF hd = l THEN 1 ELSE 0)
    + (IF tl = l THEN 1 ELSE 0)

\* Arc strong count of layer l: caller handles, chain.head, chain.tail and the
\* lo_layer fields of the layers in A.
StrongCount(l, A, h, hd, tl, lo) ==
    (IF l \in h THEN 1 ELSE 0) + (IF hd = l THEN 1 ELSE 0)
    + (IF tl = l THEN 1 ELSE 0) + Cardinality({m \in A : lo[m] = l})

\* Arc drop glue: a layer whose strong count reaches zero is destroyed, which
\* releases its own lo_layer reference, and so on.
RECURSIVE Sweep(_, _, _, _, _)
Sweep(A, h, hd, tl, lo) ==
    LET dead == {l \in A : StrongCount(l, A, h, hd, tl, lo) = 0}
    IN IF dead = {} THEN A ELSE Sweep(A \ dead, h, hd, tl, lo)

\* The fields of a destroyed layer are gone.
Clear(f, A) == [l \in Layers |-> IF l \in A THEN f[l] ELSE None]

\* Variant: the weak link is followed without the liveness check.
UpgradeAlways(w) == w

\* Weak::upgrade: the target if it is still alive.
Upgrade(w) == IF w \in alive THEN w ELSE None

\* ---------------------------------------------------------------- dispatch
\* A dispatch is a set of possible outcomes [ret, calls]: one for each choice of
\* what the user handlers return along the way. calls lists the calls of
\* Layer::handle_inbound / handle_outbound in the order they were entered: the
\* layer, the method, the request, what the layer's handler returned (out) and
\* what the method returned (val).

CallRec(l, kind, req, out, val) ==
    [layer |-> l, kind |-> kind, req |-> req, out |-> out, val |-> val]

\* Variant: a handler failure is not noticed.
HandlerFailedNever(result) == FALSE

\* `if result.is_err()`
HandlerFailed(result) == result.tag = "Err"

\* `return Err("failed to handle inbound request".into())` and its outbound twin
HandlerError(kind) ==
    IF kind = "inbound"
    THEN Err("failed to handle inbound request")
    ELSE Err("failed to handle outbound request")

\* Variant: the neighbour is handed the request this layer received.
ForwardedRequest(req, result) == req

\* The request a neighbour is called with: the data field of the handler's result.
Forwarded(req, result) == result.data

\* Variant: the layer's own handler result is returned after the neighbour ran.
ContinueOwn(own, sub) == IF sub.ret.tag = "Err" THEN sub.ret ELSE own

\* Variant: the `?` is missing; a neighbour's error is dropped and the layer
\* returns its own handler's result.
ContinueSwallowsError(own, sub) == IF sub.ret.tag = "Err" THEN own ELSE sub.ret

\* `cloned_result = neighbour.handle_x(data)?; ... Ok(cloned_result)`:
\* the neighbour's error or result becomes this call's own.
Continue(own, sub) == sub.ret

\* upstream.upgrade() failed
BrokenLink == Err("failed to handle inbound request")

\* The method returns val without calling a neighbour.
Direct(l, kind, req, result, val) ==
    [ret |-> val, calls |-> <<CallRec(l, kind, req, result, val)>>]

\* The method called a neighbour, whose outcome is sub.
Chained(l, kind, req, result, sub) ==
    [ret |-> Continue(result, sub),
     calls |-> <<CallRec(l, kind, req, result, Continue(result, sub))>> \o sub.calls]

RECURSIVE LayerHandleInbound(_, _, _)
RECURSIVE LayerHandleOutbound(_, _, _)

\* Variant: at the boundary of the chain the result is handed to the neighbour
\* on the other side.
RouteWrap(l, kind, req, result, fuel) ==
    IF result.direction = "Inbound"
    THEN IF up_layer[l] # None
         THEN IF Upgrade(up_layer[l]) # None
              THEN {Chained(l, kind, req, result, sub) :
                      sub \in LayerHandleInbound(Upgrade(up_layer[l]),
                                                 Forwarded(req, result), fuel - 1)}
              ELSE {Direct(l, kind, req, result, BrokenLink)}
         ELSE IF lo_layer[l] # None
              THEN {Chained(l, kind, req, result, sub) :
                      sub \in LayerHandleOutbound(lo_layer[l],
                                                  Forwarded(req, result), fuel - 1)}
              ELSE {Direct(l, kind, req, result, result)}
    ELSE IF lo_layer[l] # None
         THEN {Chained(l, kind, req, result, sub) :
                 sub \in LayerHandleOutbound(lo_layer[l],
                                             Forwarded(req, result), fuel - 1)}
         ELSE {Direct(l, kind, req, result, result)}

\* Variant: an Outbound result enters the lower neighbour through its inbound
\* method.
RouteCross(l, kind, req, result, fuel) ==
    IF result.direction = "Inbound"
    THEN IF up_layer[l] # None
         THEN IF Upgrade(up_layer[l]) # None
              THEN {Chained(l, kind, req, result, sub) :
                      sub \in LayerHandleInbound(Upgrade(up_layer[l]),
                                                 Forwarded(req, result), fuel - 1)}
              ELSE {Direct(l, kind, req, result, BrokenLink)}
         ELSE {Direct(l, kind, req, result, result)}
    ELSE IF lo_layer[l] # None
         THEN {Chained(l, kind, req, result, sub) :
                 sub \in LayerHandleInbound(lo_layer[l],
                                            Forwarded(req, result), fuel - 1)}
         ELSE {Direct(l, kind, req, result, result)}

\* Variant: an Inbound result goes to the lower neighbour and an Outbound
\* result to the upper one.
RouteReversed(l, kind, req, result, fuel) ==
    IF result.direction = "Outbound"
    THEN IF up_layer[l] # None
         THEN IF Upgrade(up_layer[l]) # None
              THEN {Chained(l, kind, req, result, sub) :
                      sub \in LayerHandleOutbound(Upgrade(up_layer[l]),
                                                  Forwarded(req, result), fuel - 1)}
              ELSE {Direct(l, kind, req, result, BrokenLink)}
         ELSE {Direct(l, kind, req, result, result)}
    ELSE IF lo_layer[l] # None
         THEN {Chained(l, kind, req, result, sub) :
                 sub \in LayerHandleInbound(lo_layer[l],
                                            Forwarded(req, result), fuel - 1)}
         ELSE {Direct(l, kind, req, result, result)}

\* The routing both methods share (layer.rs 81-103 and 115-137), once the
\* layer's own handler returned Ok(result).
Route(l, kind, req, result, fuel) ==
    IF result.direction = "Inbound"
    THEN IF up_layer[l] # None
         THEN IF Upgrade(up_layer[l]) # None
              THEN {Chained(l, kind, req, result, sub) :
                      sub \in LayerHandleInbound(Upgrade(up_layer[l]),
                                                 Forwarded(req, result), fuel - 1)}
              ELSE {Direct(l, kind, req, result, BrokenLink)}
         ELSE {Direct(l, kind, req, result, result)}
    ELSE IF lo_layer[l] # None
         THEN {Chained(l, kind, req, result, sub) :
                 sub \in LayerHandleOutbound(lo_layer[l],
                                             Forwarded(req, result), fuel - 1)}
         ELSE {Direct(l, kind, req, result, result)}

\* Layer::handle_inbound; fuel: the calls still followed.
LayerHandleInbound(l, req, fuel) ==
    IF fuel = 0 THEN {[ret |-> Pending, calls |-> <<>>]}
    ELSE UNION {
        IF HandlerFailed(result)
        THEN {Direct(l, "inbound", req, result, HandlerError("inbound"))}
        ELSE Route(l, "inbound", req, result, fuel)
        : result \in HandlerOutcomes}

\* Layer::handle_outbound
LayerHandleOutbound(l, req, fuel) ==
    IF fuel = 0 THEN {[ret |-> Pending, calls |-> <<>>]}
    ELSE UNION {
        IF HandlerFailed(result)
        THEN {Direct(l, "outbound", req, result, HandlerError("outbound"))}
        ELSE Route(l, "outbound", req, result, fuel)
        : result \in HandlerOutcomes}

\* ---------------------------------------------------------------- actions

\* JobTask::new: the flag is false, both channels are empty, the coroutine is
\* spawned and the caller holds the one JobTask.
TaskInit ==
    /\ is_cancelled = FALSE
    /\ job = [j \in Jobs |-> IF j = 1 THEN "some" ELSE "absent"]
    /\ forced = FALSE
    /\ pc = "spawned"
    /\ events = <<>>
    /\ emitted = <<>>
    /\ body_sends = 0
    /\ data_q = <<>>
    /\ data_sent = 0
    /\ force_calls = 0
    /\ body_result = "none"
    /\ last_call = [op |-> "none", saw |-> "-", res |-> "-"]

\* LayerBuilder::new: no handler is set; nothing was built yet.
BuilderInit ==
    /\ hanlde_inbound = FALSE
    /\ handle_outbound = FALSE
    /\ build_log = [n |-> 0, res |-> "none"]

\* The empty TOML document.
EmptyTable == [kind |-> "table", val |-> <<>>]

\* ApplicationConfig::from_str(""), twice: self and other hold empty tables.
ConfigInit ==
    config = [base |-> EmptyTable, other |-> EmptyTable, value |-> EmptyTable,
              merges |-> 0]

\* LayerChain::new: an empty chain; no layer was built and nothing dispatched.
LayerInit ==
    /\ built = 0
    /\ held = {}
    /\ alive = {}
    /\ lo_layer = [l \in Layers |-> None]
    /\ up_layer = [l \in Layers |-> None]
    /\ chain = "live"
    /\ head = None
    /\ tail = None
    /\ added = <<>>
    /\ entry = NoEntry
    /\ calls = <<>>
    /\ ret = NoResult

\* BasicContainer::new: an empty map; no thread is inside a call.
ContainerInit ==
    /\ by_type = [ty \in Types |-> NoInstance]
    /\ pending = [t \in Threads |-> Idle]
    /\ inserted = [ty \in Types |-> <<>>]
    /\ resolved = NoResolve

Init ==
    /\ LayerInit
    /\ TaskInit
    /\ BuilderInit
    /\ ConfigInit
    /\ ContainerInit

Forget ==
    /\ entry' = NoEntry /\ calls' = <<>> /\ ret' = NoResult
    /\ UNCHANGED <<taskVars, builderVars, config, containerVars>>

\* The structure after references were released: destroyed layers leave `alive`.
Settle(h, hd, tl, lo, up) ==
    LET A == Sweep(alive, h, hd, tl, lo)
    IN /\ held' = h
       /\ head' = hd
       /\ tail' = tl
       /\ alive' = A
       /\ lo_layer' = Clear(lo, A)
       /\ up_layer' = Clear(up, A)

\* LayerBuilder::new().with_inbound_fn(..).with_outbound_fn(..).build(): a
\* fresh, unlinked layer (BuilderBuild takes the builder step by step).
Build ==
    /\ built < NumLayers
    /\ built' = built + 1
    /\ held' = held \cup {built + 1}
    /\ alive' = alive \cup {built + 1}
    /\ lo_layer' = [lo_layer EXCEPT ![built + 1] = None]
    /\ up_layer' = [up_layer EXCEPT ![built + 1] = None]
    /\ UNCHANGED <<chain, head, tail, added>>
    /\ Forget

\* Variant: the tail taken out of the chain is not replaced by the new layer.
AddLayerEffectNoTail(layer, keep) ==
    LET h == IF keep THEN held ELSE held \ {layer}
    IN IF tail # None
       THEN Settle(h, head, None,
                   [lo_layer EXCEPT ![layer] = tail],
                   [up_layer EXCEPT ![tail] = layer])
       ELSE Settle(h, layer, layer,
                   [lo_layer EXCEPT ![layer] = None],
                   [up_layer EXCEPT ![layer] = None])

\* Variant: the two links of the Some arm are set the other way round.
AddLayerEffectSwapped(layer, keep) ==
    LET h == IF keep THEN held ELSE held \ {layer}
    IN IF tail # None
       THEN Settle(h, head, layer,
                   [lo_layer EXCEPT ![tail] = layer],
                   [up_layer EXCEPT ![layer] = tail])
       ELSE Settle(h, layer, layer,
                   [lo_layer EXCEPT ![layer] = None],
                   [up_layer EXCEPT ![layer] = None])

\* Variant: the Some arm also makes the new layer the head.
AddLayerEffectHeadMoves(layer, keep) ==
    LET h == IF keep THEN held ELSE held \ {layer}
    IN IF tail # None
       THEN Settle(h, layer, layer,
                   [lo_layer EXCEPT ![layer] = tail],
                   [up_layer EXCEPT ![tail] = layer])
       ELSE Settle(h, layer, layer,
                   [lo_layer EXCEPT ![layer] = None],
                   [up_layer EXCEPT ![layer] = None])

\* Variant: the None arm leaves the links of the layer as they are.
AddLayerEffectKeepsLinks(layer, keep) ==
    LET h == IF keep THEN held ELSE held \ {layer}
    IN IF tail # None
       THEN Settle(h, head, layer,
                   [lo_layer EXCEPT ![layer] = tail],
                   [up_layer EXCEPT ![tail] = layer])
       ELSE Settle(h, layer, layer, lo_layer, up_layer)

\* LayerChain::add_layer(layer); keep: the caller passed a clone of its handle.
AddLayerEffect(layer, keep) ==
    LET h == IF keep THEN held ELSE held \ {layer}
    IN IF tail # None
       THEN Settle(h, head, layer,
                   [lo_layer EXCEPT ![layer] = tail],
                   [up_layer EXCEPT ![tail] = layer])
       ELSE Settle(h, layer, layer,
                   [lo_layer EXCEPT ![layer] = None],
                   [up_layer EXCEPT ![layer] = None])

AddLayer ==
    \E layer \in held, keep \in BOOLEAN :
        /\ chain = "live"
        /\ Len(added) < MaxAdds
        /\ AddLayerEffect(layer, keep)
        /\ added' = Append(added, layer)
        /\ UNCHANGED <<built, chain>>
        /\ Forget

\* LayerChain::head(): the caller receives a clone of the head handle.
GetHead ==
    /\ chain = "live"
    /\ head # None
    /\ held' = held \cup {head}
    /\ UNCHANGED <<built, alive, lo_layer, up_layer, chain, head, tail, added>>
    /\ Forget

\* LayerChain::tail()
GetTail ==
    /\ chain = "live"
    /\ tail # None
    /\ held' = held \cup {tail}
    /\ UNCHANGED <<built, alive, lo_layer, up_layer, chain, head, tail, added>>
    /\ Forget

\* The caller drops its handle to a layer.
DropHandle ==
    \E l \in held :
        /\ Settle(held \ {l}, head, tail, lo_layer, up_layer)
        /\ UNCHANGED <<built, chain, added>>
        /\ Forget

\* Drop for LayerChain
DropChain ==
    /\ chain = "live"
    /\ chain' = "dropped"
    /\ Settle(held, None, None, lo_layer, up_layer)
    /\ UNCHANGED <<built, added>>
    /\ Forget

\* Variant: the dispatch takes the head out of the chain (`self.head.take()`
\* where the code has `self.head.clone()`).
ReturnedTakesHead(op, l, req, r) ==
    /\ entry' = [op |-> op, layer |-> l, req |-> req]
    /\ calls' = r.calls
    /\ ret' = r.ret
    /\ head' = IF op = "chain_inbound" THEN None ELSE head
    /\ UNCHANGED <<built, held, alive, lo_layer, up_layer, chain, tail, added>>
    /\ UNCHANGED <<taskVars, builderVars, config, containerVars>>

\* entry, calls and ret record one dispatch made on the current structure; the
\* next operation on the structure forgets it.
Returned(op, l, req, r) ==
    /\ entry' = [op |-> op, layer |-> l, req |-> req]
    /\ calls' = r.calls
    /\ ret' = r.ret
    /\ UNCHANGED structure
    /\ UNCHANGED <<taskVars, builderVars, config, containerVars>>

\* Variant: an empty chain hands the request back as the result.
ChainDispatchPassThrough(first, req, outcomes) ==
    IF first = None
    THEN {[ret |-> Ok("Inbound", req), calls |-> <<>>]}
    ELSE outcomes

\* `if self.head.is_none() { return Err("No layers in the chain".into()); }`,
\* else the dispatch that starts at the first layer.
ChainDispatch(first, req, outcomes) ==
    IF first = None
    THEN {[ret |-> Err("No layers in the chain"), calls |-> <<>>]}
    ELSE outcomes

\* Variant: inbound dispatch starts at the most recently added layer.
InboundEntryTail == tail

\* The layer LayerChain::handle_inbound starts at.
InboundEntry == head

\* The layer LayerChain::handle_outbound starts at.
OutboundEntry == tail

\* LayerChain::handle_inbound(req)
ChainHandleInbound ==
    \E req \in Payloads :
        /\ entry = NoEntry
        /\ chain = "live"
        /\ \E r \in ChainDispatch(InboundEntry, req,
                                  LayerHandleInbound(InboundEntry, req, MaxHops)) :
               Returned("chain_inbound", InboundEntry, req, r)

\* LayerChain::handle_outbound(req)
ChainHandleOutbound ==
    \E req \in Payloads :
        /\ entry = NoEntry
        /\ chain = "live"
        /\ \E r \in ChainDispatch(OutboundEntry, req,
                                  LayerHandleOutbound(OutboundEntry, req, MaxHops)) :
               Returned("chain_outbound", OutboundEntry, req, r)

\* layer.borrow().handle_inbound(req) on a handle the caller holds
DirectInbound ==
    \E l \in held, req \in Payloads :
        /\ entry = NoEntry
        /\ \E r \in LayerHandleInbound(l, req, MaxHops) :
            Returned("layer_inbound", l, req, r)

\* layer.borrow().handle_outbound(req) on a handle the caller holds
DirectOutbound ==
    \E l \in held, req \in Payloads :
        /\ entry = NoEntry
        /\ \E r \in LayerHandleOutbound(l, req, MaxHops) :
            Returned("layer_outbound", l, req, r)

Next ==
    \/ Build
    \/ AddLayer
    \/ GetHead
    \/ GetTail
    \/ DropHandle
    \/ DropChain
    \/ ChainHandleInbound
    \/ ChainHandleOutbound
    \/ DirectInbound
    \/ DirectOutbound

Spec == Init /\ [][Next]_vars

\* LayerChain::new() after the former chain was dropped: the caller goes on
\* with an empty chain and the layers it still holds.
NewChain ==
    /\ chain = "dropped"
    /\ chain' = "live"
    /\ added' = <<>>
    /\ UNCHANGED <<built, held, alive, lo_layer, up_layer, head, tail>>
    /\ Forget

\* Chain assembly alone, over successive chains.
AssemblyNext ==
    \/ Build
    \/ AddLayer
    \/ GetHead
    \/ GetTail
    \/ DropHandle
    \/ DropChain
    \/ NewChain

AssemblySpec == Init /\ [][AssemblyNext]_vars

\* Chains built one after another from layers the caller keeps handles to, and
\* dispatches through the current chain.
ReuseNext ==
    \/ AssemblyNext
    \/ ChainHandleInbound
    \/ ChainHandleOutbound

ReuseSpec == Init /\ [][ReuseNext]_vars


\* ---------------------------------------------------------------- task supervisor

LiveJobs == {j \in Jobs : job[j] \in {"some", "taken"}}

NoCall == [op |-> "none", saw |-> "-", res |-> "-"]

\* crossbeam Sender::send on the event channel: the event is enqueued while a
\* Receiver (a live JobTask) exists; otherwise send fails and `let _ =` drops it.
Emit(evs) ==
    IF LiveJobs # {}
    THEN events' = events \o evs /\ emitted' = emitted \o evs
    ELSE UNCHANGED <<events, emitted>>

\* Variant: the cancelled unit sends Cancelled and goes on into the task body.
UnitStartNoReturn ==
    /\ pc = "spawned"
    /\ IF is_cancelled THEN Emit(<<"Cancelled">>) ELSE UNCHANGED <<events, emitted>>
    /\ pc' = "body"
    /\ last_call' = NoCall
    /\ UNCHANGED <<is_cancelled, job, forced, force_calls, body_result, body_sends,
                   data_q, data_sent>>
    /\ UNCHANGED <<layerVars, builderVars, config, containerVars>>

\* Variant: the unit enters the task body without looking at the flag.
UnitStartNoCheck ==
    /\ pc = "spawned"
    /\ pc' = "body"
    /\ last_call' = NoCall
    /\ UNCHANGED <<is_cancelled, job, forced, force_calls, body_result, events,
                   emitted, body_sends, data_q, data_sent>>
    /\ UNCHANGED <<layerVars, builderVars, config, containerVars>>

\* The coroutine starts: `if flag.load(Acquire) { send(Cancelled); return; }`,
\* else it enters the task body.
UnitStart ==
    /\ pc = "spawned"
    /\ IF is_cancelled
       THEN /\ Emit(<<"Cancelled">>)
            /\ pc' = "exited"
            /\ data_q' = <<>>
       ELSE /\ pc' = "body"
            /\ UNCHANGED <<events, emitted, data_q>>
    /\ last_call' = NoCall
    /\ UNCHANGED <<is_cancelled, job, forced, force_calls, body_result, body_sends,
                   data_sent>>
    /\ UNCHANGED <<layerVars, builderVars, config, containerVars>>

\* The task body sends an event through the Sender it was given.
BodySend ==
    \E ev \in BodyEvents :
        /\ pc = "body"
        /\ body_sends < MaxBodySends
        /\ body_sends' = body_sends + 1
        /\ Emit(<<ev>>)
        /\ last_call' = NoCall
        /\ UNCHANGED <<is_cancelled, job, forced, force_calls, body_result, pc,
                       data_q, data_sent>>
        /\ UNCHANGED <<layerVars, builderVars, config, containerVars>>

\* Variant: a receive reads the oldest entry and leaves it in the queue for the
\* next receiver, as a broadcast channel would.
TakenPeek(q) == q

\* Variant: a receive takes the newest entry of the queue.
TakenNewest(q) == SubSeq(q, 1, Len(q) - 1)

\* crossbeam Receiver::try_recv / recv on a queue that is not empty: the oldest
\* entry leaves the queue.
Taken(q) == Tail(q)

\* The task body takes an item from the data channel (receiver.try_recv()).
BodyRecvData ==
    /\ pc = "body"
    /\ data_q # <<>>
    /\ data_q' = Taken(data_q)
    /\ last_call' = NoCall
    /\ UNCHANGED <<is_cancelled, job, forced, force_calls, body_result, pc, events,
                   emitted, body_sends, data_sent>>
    /\ UNCHANGED <<layerVars, builderVars, config, containerVars>>

\* Variant: the Err arm of the match sends Cancelled.
ReportCancelled(r) == IF r = "Ok" THEN "Done" ELSE "Cancelled"

\* Variant: both arms of the match send Done.
ReportDone(r) == "Done"

\* `match result { Ok(_) => send(Done), Err(_) => send(Panic("panic")) }`
Report(r) == IF r = "Ok" THEN "Done" ELSE "Panic"

\* Variant: the unit ends without sending an event of its own.
UnitExitSilent(r) ==
    /\ body_result' = r
    /\ pc' = "exited"
    /\ data_q' = <<>>
    /\ last_call' = NoCall
    /\ UNCHANGED <<is_cancelled, job, forced, force_calls, body_sends,
                   data_sent, events, emitted>>
    /\ UNCHANGED <<layerVars, builderVars, config, containerVars>>

\* The coroutine ends with catch_unwind's result r: the unit sends its last
\* event, and the closure and the data Receiver it owns are dropped.
UnitExit(r) ==
    /\ body_result' = r
    /\ Emit(<<Report(r)>>)
    /\ pc' = "exited"
    /\ data_q' = <<>>
    /\ last_call' = NoCall
    /\ UNCHANGED <<is_cancelled, job, forced, force_calls, body_sends,
                   data_sent>>
    /\ UNCHANGED <<layerVars, builderVars, config, containerVars>>

\* The task body returns: catch_unwind gives Ok and the unit sends Done.
BodyReturn ==
    /\ pc = "body"
    /\ UnitExit("Ok")

\* The task body panics: catch_unwind gives Err and the unit sends Panic.
BodyPanic ==
    /\ pc = "body"
    /\ UnitExit("Err")

\* The task body reaches a yield point after coroutine().cancel(): the
\* coroutine runtime unwinds the body, which catch_unwind turns into Err.
BodyCancelled ==
    /\ pc = "body"
    /\ forced
    /\ UnitExit("Err")

\* Variant: only an explicit cancel() stores the flag; a drop leaves it.
CancelEffectDropKeepsFlag(j, after) ==
    /\ is_cancelled' = (is_cancelled \/ after = "taken")
    /\ forced' = (forced \/ (job[j] = "some" /\ pc # "exited"))
    /\ force_calls' = IF job[j] = "some" THEN force_calls + 1 ELSE force_calls
    /\ job' = [job EXCEPT ![j] = after]

\* Variant: cancel sets the flag and releases the handle without using it.
CancelEffectNoForce(j, after) ==
    /\ is_cancelled' = TRUE
    /\ UNCHANGED <<forced, force_calls>>
    /\ job' = [job EXCEPT ![j] = after]

\* JobTask::cancel on the JobTask j, whose turn leaves it in state after:
\* `store(true)`, then `if let Some(handle) = self.handle.take()` the call of
\* handle.coroutine().cancel(), which acts on a unit that has not exited.
CancelEffect(j, after) ==
    /\ is_cancelled' = TRUE
    /\ forced' = (forced \/ (job[j] = "some" /\ pc # "exited"))
    /\ force_calls' = IF job[j] = "some" THEN force_calls + 1 ELSE force_calls
    /\ job' = [job EXCEPT ![j] = after]

\* JobTask::cancel
Cancel ==
    \E j \in LiveJobs :
        /\ CancelEffect(j, "taken")
        /\ last_call' = NoCall
        /\ UNCHANGED <<body_result, pc, events, emitted, body_sends, data_q,
                       data_sent>>
        /\ UNCHANGED <<layerVars, builderVars, config, containerVars>>

\* Drop for JobTask: cancel(), then the fields are dropped; the event queue
\* goes with the last Receiver.
DropJob ==
    \E j \in LiveJobs :
        /\ CancelEffect(j, "dropped")
        /\ events' = IF LiveJobs = {j} THEN <<>> ELSE events
        /\ last_call' = NoCall
        /\ UNCHANGED <<body_result, pc, emitted, body_sends, data_q, data_sent>>
        /\ UNCHANGED <<layerVars, builderVars, config, containerVars>>

\* JobTask::clone (derived): every field is cloned, the Option handle too.
CloneJob ==
    \E j \in LiveJobs, k \in Jobs :
        /\ job[k] = "absent"
        /\ \A i \in Jobs : i < k => job[i] # "absent"
        /\ job' = [job EXCEPT ![k] = job[j]]
        /\ last_call' = NoCall
        /\ UNCHANGED <<is_cancelled, forced, force_calls, body_result, pc, events,
                       emitted, body_sends, data_q, data_sent>>
        /\ UNCHANGED <<layerVars, builderVars, config, containerVars>>

\* Variant: the unit owns the only Sender; the channel closes when it exits.
EventChannelClosedAtExit == pc = "exited"

\* No Sender of the event channel is left: every JobTask (each holds
\* _event_tx) is gone and the unit, which owns the other Sender, has exited.
EventChannelClosed == LiveJobs = {} /\ pc = "exited"

\* What the crossbeam receive call op finds: an event, an empty queue (Empty
\* for try_recv, Timeout for recv_timeout once the deadline has passed, while
\* recv keeps waiting) or a closed and drained channel (Disconnected).
Found(op) ==
    IF events # <<>> THEN "event"
    ELSE IF EventChannelClosed THEN "closed"
    ELSE IF op = "recv" THEN "waiting" ELSE "empty"

\* Variant: the receive result is unwrapped, which panics on Err.
Unwrapped(found) == IF found = "event" THEN "Some" ELSE "panic"

\* Result::ok on the receive result: Ok(event) is Some(event), any Err is None.
OkOption(found) == IF found = "event" THEN "Some" ELSE "None"

\* A receive method of a live JobTask returns.
Receive(op) ==
    /\ LiveJobs # {}
    /\ Found(op) # "waiting"
    /\ events' = IF events # <<>> THEN Taken(events) ELSE events
    /\ last_call' = [op |-> op, saw |-> Found(op), res |-> OkOption(Found(op))]
    /\ UNCHANGED <<is_cancelled, job, forced, force_calls, body_result, pc, emitted,
                   body_sends, data_q, data_sent>>
    /\ UNCHANGED <<layerVars, builderVars, config, containerVars>>

\* JobTask::try_recv
TryRecv == Receive("try_recv")

\* JobTask::recv
Recv == Receive("recv")

\* JobTask::recv_timeout
RecvTimeout == Receive("recv_timeout")

\* Variant: the data channel takes the item whether or not a Receiver is left.
EnqueuedAlways(q) == Append(q, data_sent + 1)

\* crossbeam Sender::send on the data channel: the item is enqueued while the
\* unit still owns the data Receiver, and handed back in an Err otherwise.
Enqueued(q) == IF pc # "exited" THEN Append(q, data_sent + 1) ELSE q

\* JobTask::send(data): `let _ = self.sender.send(data)` returns (); max: the
\* send() calls followed in a run.
SendUpTo(max) ==
    /\ LiveJobs # {}
    /\ data_sent < max
    /\ data_sent' = data_sent + 1
    /\ data_q' = Enqueued(data_q)
    /\ last_call' = [op |-> "send",
                     saw |-> IF pc # "exited" THEN "open" ELSE "closed",
                     res |-> "unit"]
    /\ UNCHANGED <<is_cancelled, job, forced, force_calls, body_result, pc, events,
                   emitted, body_sends>>
    /\ UNCHANGED <<layerVars, builderVars, config, containerVars>>

Send == SendUpTo(MaxData)

TaskNext ==
    \/ UnitStart
    \/ BodySend
    \/ BodyRecvData
    \/ BodyReturn
    \/ BodyPanic
    \/ BodyCancelled
    \/ Cancel
    \/ DropJob
    \/ CloneJob
    \/ TryRecv
    \/ Recv
    \/ RecvTimeout
    \/ Send

TaskSpec == Init /\ [][TaskNext]_vars

\* One JobTask that is not cloned, with room for several items in the data
\* channel.
SendItem == SendUpTo(MaxItems)

ChannelNext ==
    \/ UnitStart
    \/ BodySend
    \/ BodyRecvData
    \/ BodyReturn
    \/ BodyPanic
    \/ BodyCancelled
    \/ Cancel
    \/ DropJob
    \/ TryRecv
    \/ Recv
    \/ RecvTimeout
    \/ SendItem

ChannelSpec == Init /\ [][ChannelNext]_vars

\* The coroutine scheduler runs a spawned unit, and a running body that was
\* cancelled comes to a yield point, where the runtime unwinds it.
TaskFairSpec == TaskSpec /\ WF_vars(UnitStart) /\ WF_vars(BodyCancelled)

\* ---------------------------------------------------------------- layer builder

\* LayerBuilder::with_inbound_fn
WithInboundFn ==
    /\ hanlde_inbound' = TRUE
    /\ UNCHANGED <<handle_outbound, build_log>>
    /\ UNCHANGED <<layerVars, taskVars, config, containerVars>>

\* LayerBuilder::with_outbound_fn
WithOutboundFn ==
    /\ handle_outbound' = TRUE
    /\ UNCHANGED <<hanlde_inbound, build_log>>
    /\ UNCHANGED <<layerVars, taskVars, config, containerVars>>

\* Variant: build looks at the inbound handler only.
BuildResultInboundOnly ==
    IF ~hanlde_inbound THEN "inbound handler not set" ELSE "ok"

\* `self.hanlde_inbound.ok_or("inbound handler not set")?`, then
\* `self.handle_outbound.ok_or("outbound handler not set")?`, then Ok(layer).
BuildResult ==
    IF ~hanlde_inbound THEN "inbound handler not set"
    ELSE IF ~handle_outbound THEN "outbound handler not set"
    ELSE "ok"

\* LayerBuilder::build on the builder as it stands; build takes the builder by
\* value, so that the next one starts from LayerBuilder::new.
BuilderBuild ==
    /\ build_log.n < MaxBuilds
    /\ build_log' = [n |-> build_log.n + 1, res |-> BuildResult]
    /\ hanlde_inbound' = FALSE
    /\ handle_outbound' = FALSE
    /\ IF BuildResult = "ok"
       THEN /\ built < NumLayers
            /\ built' = built + 1
            /\ held' = held \cup {built + 1}
            /\ alive' = alive \cup {built + 1}
            /\ lo_layer' = [lo_layer EXCEPT ![built + 1] = None]
            /\ up_layer' = [up_layer EXCEPT ![built + 1] = None]
       ELSE UNCHANGED <<built, held, alive, lo_layer, up_layer>>
    /\ UNCHANGED <<chain, head, tail, added, dispatch>>
    /\ UNCHANGED <<taskVars, config, containerVars>>

BuilderNext ==
    \/ WithInboundFn
    \/ WithOutboundFn
    \/ BuilderBuild
    \/ AddLayer
    \/ DropHandle

BuilderSpec == Init /\ [][BuilderNext]_vars

\* ---------------------------------------------------------------- configuration

\* toml::Value, by variant: a scalar (integer, string, ...), an array, a table.
Scalar(x) == [kind |-> "scalar", val |-> x]
Array(items) == [kind |-> "array", val |-> items]
Table(map) == [kind |-> "table", val |-> map]

Scalars == {Scalar(1), Scalar(2)}
\* Arrays of at most MaxArrayLen scalars.
Arrays ==
    {Array(items) : items \in UNION {[1..n -> Scalars] : n \in 0..MaxArrayLen}}
\* Tables with keys among K and values among V.
Tables(K, V) == {Table(map) : map \in UNION {[D -> V] : D \in SUBSET K}}

Keys == {"server", "items"}
SubKeys == {"port"}
\* The documents merged here: tables of scalars, arrays and one-key tables.
Docs == Tables(Keys, Scalars \cup Arrays \cup Tables(SubKeys, Scalars \cup Arrays))

RECURSIVE MergeValues(_, _)

\* Variant: two arrays are concatenated with the second one's elements first.
MergeValuesPrepend(a, b) ==
    IF a.kind = "array" /\ b.kind = "array"
    THEN Array(b.val \o a.val)
    ELSE IF a.kind = "table" /\ b.kind = "table"
         THEN Table([k \in DOMAIN a.val \cup DOMAIN b.val |->
                       IF k \notin DOMAIN b.val THEN a.val[k]
                       ELSE IF k \in DOMAIN a.val
                            THEN MergeValues(a.val[k], b.val[k])
                            ELSE b.val[k]])
         ELSE b

\* merge_values
MergeValues(a, b) ==
    IF a.kind = "table" /\ b.kind = "table"
    THEN Table([k \in DOMAIN a.val \cup DOMAIN b.val |->
                  IF k \notin DOMAIN b.val THEN a.val[k]
                  ELSE IF k \in DOMAIN a.val
                       THEN MergeValues(a.val[k], b.val[k])
                       ELSE b.val[k]])
    ELSE IF a.kind = "array" /\ b.kind = "array"
         THEN Array(a.val \o b.val)
         ELSE b

\* Two documents were loaded; nothing else has happened.
MergeInit ==
    /\ LayerInit
    /\ TaskInit
    /\ BuilderInit
    /\ ContainerInit
    /\ \E d \in Docs, o \in Docs :
           config = [base |-> d, other |-> o, value |-> d, merges |-> 0]

\* ApplicationConfig::merge(other): self.value = merge_values(self.value,
\* other.value). The argument is passed by value; the caller merges a clone
\* of the same document again.
Merge ==
    /\ config.merges < MaxMerges
    /\ config' = [base |-> config.value,
                  other |-> config.other,
                  value |-> MergeValues(config.value, config.other),
                  merges |-> config.merges + 1]
    /\ UNCHANGED <<layerVars, taskVars, builderVars, containerVars>>

MergeSpec == MergeInit /\ [][Merge]_vars

\* ---------------------------------------------------------------- container
\* DashMap::insert and DashMap::get each run under the lock of the key's
\* shard, so each is one step; register is two steps, instantiate and insert.

\* register calls begun so far.
Registers ==
    Cardinality({t \in Threads : pending[t] # Idle})
    + Len(inserted["TestProvider"]) + Len(inserted["OtherProvider"])

\* register, first half: `let instance = provider.instantiate(self)`.
Instantiate ==
    \E t \in Threads, ty \in ProviderTypes, n \in Names :
        /\ pending[t] = Idle
        /\ Registers < MaxRegisters
        /\ pending' = [pending EXCEPT ![t] = [type |-> ty, name |-> n]]
        /\ resolved' = NoResolve
        /\ UNCHANGED <<by_type, inserted>>
        /\ UNCHANGED <<layerVars, taskVars, builderVars, config>>

\* Variant: an entry that is already there is kept.
StoredIfAbsent(map, ty, n) ==
    IF map[ty] = NoInstance THEN [map EXCEPT ![ty] = n] ELSE map

\* DashMap::insert(type_id, instance): the entry of the key is replaced.
Stored(map, ty, n) == [map EXCEPT ![ty] = n]

\* register, second half: `self.by_type.insert((*instance).type_id(), instance)`.
Insert ==
    \E t \in Threads :
        /\ pending[t] # Idle
        /\ by_type' = Stored(by_type, pending[t].type, pending[t].name)
        /\ inserted' = [inserted EXCEPT
                          ![pending[t].type] = Append(@, pending[t].name)]
        /\ pending' = [pending EXCEPT ![t] = Idle]
        /\ resolved' = NoResolve
        /\ UNCHANGED <<layerVars, taskVars, builderVars, config>>

\* `by_type.get(&TypeId::of::<T>()).and_then(|i| i.downcast_ref::<T>().map(clone))`:
\* the stored instance of the type, which is a T, or None.
Lookup(ty) == by_type[ty]

\* resolve::<T>() by a thread that is not inside register.
Resolve ==
    \E t \in Threads, ty \in Types :
        /\ pending[t] = Idle
        /\ resolved' = [thread |-> t, type |-> ty, res |-> Lookup(ty)]
        /\ UNCHANGED <<by_type, pending, inserted>>
        /\ UNCHANGED <<layerVars, taskVars, builderVars, config>>

ContainerNext == Instantiate \/ Insert \/ Resolve

ContainerSpec == Init /\ [][ContainerNext]_vars

\* ---------------------------------------------------------------- claims

ChainOps == {"chain_inbound", "chain_outbound"}
\* The last dispatch ran to its return within MaxHops calls.
Finished == ret.tag \in {"Ok", "Err"}
\* The current chain was built from pairwise distinct layers.
DistinctAdds == \A i, j \in 1..Len(added) : i # j => added[i] # added[j]
\* L0 was added, then another layer L1, and nothing else.
TwoLayerChain ==
    chain = "live" /\ Len(added) = 2 /\ added[1] # added[2]
\* In the i-th call the layer's handler returned Ok with this direction.
Returns(i, direction) ==
    calls[i].out.tag = "Ok" /\ calls[i].out.direction = direction
\* The i-th call is method kind of layer l on request p.
IsCall(i, l, kind, p) ==
    /\ i <= Len(calls)
    /\ calls[i].layer = l
    /\ calls[i].kind = kind
    /\ calls[i].req = p

\* C1: on a chain to which no layer was added, handle_inbound and
\* handle_outbound return the empty-chain error for every payload and invoke
\* no handler.
C1_EmptyChainFails ==
    (entry.op \in ChainOps /\ added = <<>>) =>
        /\ ret = Err("No layers in the chain")
        /\ calls = <<>>

C1_Witness ==
    /\ entry.op = "chain_outbound"
    /\ added = <<>>
    /\ built = NumLayers
    /\ ret.tag = "Err"

\* C2: after N >= 1 add_layer calls with pairwise distinct layers on a fresh
\* chain, head() is the first-added and tail() the last-added layer; the head
\* stays the first-added layer however many layers follow.
C2_HeadFirstTailLast ==
    (chain = "live" /\ Len(added) >= 1 /\ DistinctAdds) =>
        /\ head = added[1]
        /\ tail = added[Len(added)]

C2_Witness ==
    /\ chain = "live"
    /\ Len(added) = NumLayers
    /\ DistinctAdds
    /\ head # tail

\* C3 as stated: for layers added in order L0 then L1, L1 is the head and L0
\* the tail, and LayerChain::handle_inbound invokes L1's inbound handler first.
C3_Original ==
    TwoLayerChain =>
        /\ head = added[2]
        /\ tail = added[1]
        /\ (entry.op = "chain_inbound" => IsCall(1, added[2], "inbound", entry.req))

\* C3 amended: for layers added in order L0 then L1, L0 is the head and L1 the
\* tail, and LayerChain::handle_inbound invokes L0's inbound handler first,
\* with the caller's request.
C3_HeadIsFirstAdded ==
    TwoLayerChain =>
        /\ head = added[1]
        /\ tail = added[2]
        /\ (entry.op = "chain_inbound" => IsCall(1, added[1], "inbound", entry.req))

C3_Witness ==
    /\ TwoLayerChain
    /\ entry.op = "chain_inbound"
    /\ Len(calls) >= 2
    /\ calls[2].layer = added[2]

\* Every call of layer l's inbound handler in the last dispatch returned
\* direction Outbound.
InboundAnswersOutbound(l) ==
    \A i \in 1..Len(calls) :
        (calls[i].layer = l /\ calls[i].kind = "inbound") => Returns(i, "Outbound")

\* C4 as stated: in a chain built by adding L0 then L1, when L1's inbound
\* handler returns Outbound with payload p, LayerChain::handle_inbound returns
\* the result of L0.handle_outbound applied to L1's output payload.
C4_Original ==
    (TwoLayerChain /\ entry.op = "chain_inbound" /\ Finished
       /\ InboundAnswersOutbound(added[2])) =>
        \E i \in 1..Len(calls) :
            /\ calls[i].layer = added[2]
            /\ calls[i].kind = "inbound"
            /\ IsCall(i + 1, added[1], "outbound", calls[i].out.data)
            /\ ret = calls[i + 1].val

\* C4 amended: in a chain built by adding L0 then L1, when L0's inbound handler
\* returns Inbound (so that L1 is reached) and L1's inbound handler then returns
\* Outbound with payload p, LayerChain::handle_inbound returns the result of
\* L0.handle_outbound applied to p, not L1's own handler result.
C4_RedirectedResult ==
    (TwoLayerChain /\ entry.op = "chain_inbound" /\ Len(calls) >= 2
       /\ Returns(1, "Inbound") /\ Returns(2, "Outbound")) =>
        /\ IsCall(2, added[2], "inbound", calls[1].out.data)
        /\ IsCall(3, added[1], "outbound", calls[2].out.data)
        /\ ret = calls[3].val

C4_Witness ==
    /\ TwoLayerChain
    /\ entry.op = "chain_inbound"
    /\ Len(calls) = 3
    /\ Returns(1, "Inbound")
    /\ Returns(2, "Outbound")
    /\ calls[3].layer = added[1]
    /\ ret.tag = "Ok"
    /\ ret # calls[2].out

\* The handler result of the i-th call points to a neighbour its layer does
\* not have.
NeighbourAbsent(i) ==
    \/ Returns(i, "Inbound") /\ up_layer[calls[i].layer] = None
    \/ Returns(i, "Outbound") /\ lo_layer[calls[i].layer] = None

\* C5: when a handler's result points to an absent neighbour, the dispatch
\* returns that handler's result unchanged and invokes no further handler; a
\* single-layer chain's handle_inbound invokes only that layer's inbound
\* handler, once, and handle_outbound only its outbound handler.
C5_BoundaryReturnsDirect ==
    /\ \A i \in 1..Len(calls) :
           NeighbourAbsent(i) =>
               /\ i = Len(calls)
               /\ calls[i].val = calls[i].out
               /\ ret = calls[i].out
    /\ (chain = "live" /\ Len(added) = 1 /\ entry.op \in ChainOps) =>
           /\ Len(calls) = 1
           /\ IsCall(1, added[1],
                     IF entry.op = "chain_inbound" THEN "inbound" ELSE "outbound",
                     entry.req)
           /\ (calls[1].out.tag = "Ok" => ret = calls[1].out)

C5_Witness ==
    /\ TwoLayerChain
    /\ entry.op = "chain_outbound"
    /\ Len(calls) = 1
    /\ Returns(1, "Inbound")
    /\ lo_layer[calls[1].layer] # None
    /\ ret = calls[1].out

\* C6: in Layer::handle_inbound and Layer::handle_outbound alike, when the
\* layer's handler returns Inbound and the upper neighbour exists and is live,
\* the upper neighbour's handle_inbound is invoked with exactly the data of the
\* handler's result, and the outcome is that call's result.
C6_InboundGoesUp ==
    \A i \in 1..Len(calls) :
        (/\ i < MaxHops
         /\ Returns(i, "Inbound")
         /\ up_layer[calls[i].layer] # None
         /\ up_layer[calls[i].layer] \in alive) =>
            /\ IsCall(i + 1, up_layer[calls[i].layer], "inbound", calls[i].out.data)
            /\ calls[i].val = calls[i + 1].val

C6_Witness ==
    /\ Len(calls) = 2
    /\ calls[1].kind = "outbound"
    /\ Returns(1, "Inbound")
    /\ calls[1].out.data # calls[1].req
    /\ calls[2].kind = "inbound"
    /\ ret.tag = "Ok"
    /\ ret = calls[2].out
    /\ ret # calls[1].out

\* C7: in Layer::handle_inbound and Layer::handle_outbound alike, when the
\* layer's handler returns Outbound and a lower neighbour exists, the lower
\* neighbour's handle_outbound is invoked with exactly the data of the
\* handler's result, and the outcome is that call's result.
C7_OutboundGoesDown ==
    \A i \in 1..Len(calls) :
        (/\ i < MaxHops
         /\ Returns(i, "Outbound")
         /\ lo_layer[calls[i].layer] # None) =>
            /\ IsCall(i + 1, lo_layer[calls[i].layer], "outbound", calls[i].out.data)
            /\ calls[i].val = calls[i + 1].val

C7_Witness ==
    /\ Len(calls) = 2
    /\ calls[1].kind = "inbound"
    /\ Returns(1, "Outbound")
    /\ calls[1].out.data # calls[1].req
    /\ calls[2].kind = "outbound"
    /\ ret.tag = "Ok"
    /\ ret = calls[2].out
    /\ ret # calls[1].out

\* The layer of the i-th call has an upper link whose target was destroyed.
UpperExpired(i) ==
    /\ up_layer[calls[i].layer] # None
    /\ up_layer[calls[i].layer] \notin alive

\* C8: if a layer's handler returns Inbound and the layer's upper link points
\* to a destroyed layer, the dispatch fails with the broken-link error and does
\* not return the handler's own result.
C8_ExpiredLinkFails ==
    \A i \in 1..Len(calls) :
        (Returns(i, "Inbound") /\ UpperExpired(i)) =>
            /\ i = Len(calls)
            /\ calls[i].val = Err("failed to handle inbound request")
            /\ ret = Err("failed to handle inbound request")

C8_Witness ==
    /\ chain = "dropped"
    /\ entry.op = "layer_outbound"
    /\ Len(calls) = 1
    /\ Returns(1, "Inbound")
    /\ UpperExpired(1)
    /\ ret.tag = "Err"

\* C9: if a layer's own handler fails, Layer::handle_inbound / handle_outbound
\* returns a handler error at once and no neighbour's handler is invoked.
C9_HandlerErrorStops ==
    \A i \in 1..Len(calls) :
        calls[i].out.tag = "Err" =>
            /\ i = Len(calls)
            /\ calls[i].val = (IF calls[i].kind = "inbound"
                               THEN Err("failed to handle inbound request")
                               ELSE Err("failed to handle outbound request"))
            /\ ret = calls[i].val

C9_Witness ==
    /\ Len(calls) = 2
    /\ calls[2].out.tag = "Err"
    /\ calls[2].kind = "outbound"
    /\ ret.tag = "Err"

\* The terminal events among the events enqueued so far.
TerminalsEmitted == SelectSeq(emitted, LAMBDA e : e \in TerminalEvents)

\* C10: for every run of a JobTask, whatever the task body sends and however
\* cancel and drop interleave, exactly one terminal event (Done, Cancelled,
\* Error or Panic) is enqueued on the event channel. Stated for the runs an
\* observer can see: the unit has exited and a JobTask is still alive, so that
\* the channel had a receiver throughout.
C10_ExactlyOneTerminal ==
    (pc = "exited" /\ LiveJobs # {}) => Len(TerminalsEmitted) = 1

\* The events the unit sends on its own, outside the task body.
UnitEvents == {"Done", "Cancelled", "Panic"}

\* C11 as first stated: in the sequence of events of a JobTask no Data or
\* Progress event follows a terminal event (Done, Cancelled, Error, Panic).
C11_Original ==
    \A i, j \in 1..Len(emitted) :
        (i < j /\ emitted[i] \in TerminalEvents)
            => emitted[j] \notin {"Data", "Progress"}

\* C11: the terminal event that the unit itself enqueues is the last event of
\* the stream: while a JobTask is alive the stream holds the events the task
\* body has sent and, once the unit has exited, exactly one more event after
\* them, which is Done, Cancelled or Panic. A Data or Progress event therefore
\* follows a terminal event only if the task body sent that terminal event.
C11_UnitTerminalLast ==
    LiveJobs # {} =>
        /\ Len(emitted) = body_sends + (IF pc = "exited" THEN 1 ELSE 0)
        /\ pc = "exited" => emitted[Len(emitted)] \in UnitEvents

C11_Witness ==
    /\ pc = "exited"
    /\ LiveJobs # {}
    /\ emitted = <<"Error", "Data", "Done">>

\* The unit has not started and the flag is already set.
CancelledUnstarted == pc = "spawned" /\ is_cancelled

\* C12: when cancel() comes before the unit has started, the unit's first step
\* is its exit: the task body is never run (catch_unwind has no result and the
\* body has sent nothing) and the event stream is exactly <<Cancelled>>; after
\* the exit nothing is added to the stream.
C12_CancelBeforeStart ==
    [][ /\ CancelledUnstarted =>
            \/ pc' = "spawned" /\ emitted' = <<>>
            \/ /\ pc' = "exited"
               /\ body_result' = "none"
               /\ body_sends' = 0
               /\ LiveJobs # {} => emitted' = <<"Cancelled">>
        /\ pc = "exited" =>
            /\ pc' = "exited"
            /\ emitted' = emitted
            /\ body_result' = body_result
            /\ body_sends' = body_sends ]_vars

C12_Witness ==
    /\ pc = "exited"
    /\ job[1] = "taken"
    /\ body_result = "none"
    /\ body_sends = 0
    /\ emitted = <<"Cancelled">>

C14_ForcedAtMostOnce == force_calls <= 1

\* C15: a send(data) made after the unit has exited returns () like any other
\* send, leaves the event stream and the exited unit as they are and puts
\* nothing in the data channel; no item waits in the data channel of an exited
\* unit, so none is delivered to a consumer.
C15_SendAfterExit ==
    [][ /\ (pc = "exited" /\ data_sent' = data_sent + 1)
             => /\ last_call' = [op |-> "send", saw |-> "closed", res |-> "unit"]
                /\ UNCHANGED <<pc, events, emitted, data_q, job>>
        /\ pc' = "exited" => data_q' = <<>> ]_vars

C15_Witness ==
    /\ pc = "exited"
    /\ emitted # <<>>
    /\ last_call = [op |-> "send", saw |-> "closed", res |-> "unit"]
    /\ data_sent = 1
    /\ data_q = <<>>

\* The one event the unit adds after the body's own events is Done when
\* catch_unwind gave Ok and Panic when it gave Err.
Reported ==
    (LiveJobs # {} /\ body_result # "none") =>
        /\ Len(emitted) = body_sends + 1
        /\ body_result = "Ok" => emitted[Len(emitted)] = "Done"
        /\ body_result = "Err" => emitted[Len(emitted)] = "Panic"

\* C16: when the task body was run and returned normally (catch_unwind gave Ok)
\* the one event the unit adds after the body's own events is Done, not Panic;
\* when the body faulted (catch_unwind gave Err) that one event is Panic, not
\* Done; and the step in which the body ends, either way, leaves every JobTask
\* value and the flag as they were: the fault stays inside the unit.
C16_DoneOrPanic ==
    [][ /\ Reported'
        /\ body_result' # body_result
             => (pc = "body" /\ pc' = "exited" /\ UNCHANGED <<job, is_cancelled>>)
      ]_vars

C16_Witness ==
    /\ body_result = "Err"
    /\ ~is_cancelled
    /\ job[1] = "some"
    /\ emitted = <<"Data", "Panic">>

\* C17: a task that was stopped by cancel() or by the drop of a JobTask before
\* its unit had exited, whether before the body started or while it was
\* running, has Cancelled as the last event of its stream.
C17_EndsCancelled ==
    (pc = "exited" /\ forced /\ LiveJobs # {})
        => emitted[Len(emitted)] = "Cancelled"

ReceiveOps == {"try_recv", "recv", "recv_timeout"}

BuildErrors == {"inbound handler not set", "outbound handler not set"}

\* C19: a LayerBuilder::build call succeeds exactly when both handlers of the
\* builder are set; a failed call returns one of the two construction errors
\* and creates no layer; a successful call creates one new layer, which has no
\* lower and no upper link.
C19_BuildNeedsBothHandlers ==
    [][ build_log'.n = build_log.n + 1 =>
          /\ (build_log'.res = "ok") <=> (hanlde_inbound /\ handle_outbound)
          /\ build_log'.res # "ok" =>
               /\ build_log'.res \in BuildErrors
               /\ UNCHANGED <<built, held, alive, lo_layer, up_layer>>
          /\ build_log'.res = "ok" =>
               /\ built' = built + 1
               /\ alive' = alive \cup {built'}
               /\ built' \notin alive
               /\ lo_layer'[built'] = None
               /\ up_layer'[built'] = None ]_vars

\* One build failed for the missing outbound handler, the next one succeeded.
C19_Witness ==
    /\ build_log = [n |-> 2, res |-> "ok"]
    /\ built = 1
    /\ 1 \in alive
    /\ lo_layer[1] = None
    /\ up_layer[1] = None

\* r is what two values that are not both tables merge into: the second
\* array's elements after the first one's, or else the second value.
LeafMerged(r, x, y) ==
    IF x.kind = "array" /\ y.kind = "array"
    THEN /\ r.kind = "array"
         /\ Len(r.val) = Len(x.val) + Len(y.val)
         /\ \A i \in 1..Len(x.val) : r.val[i] = x.val[i]
         /\ \A i \in 1..Len(y.val) : r.val[Len(x.val) + i] = y.val[i]
    ELSE r = y

\* r is a table with the keys of x and of y: a key of only one of them keeps
\* its value, a key of both has a value that Rule relates to the two values.
TableMerged(r, x, y, Rule(_, _, _)) ==
    /\ r.kind = "table"
    /\ DOMAIN r.val = DOMAIN x.val \cup DOMAIN y.val
    /\ \A k \in DOMAIN x.val \ DOMAIN y.val : r.val[k] = x.val[k]
    /\ \A k \in DOMAIN y.val \ DOMAIN x.val : r.val[k] = y.val[k]
    /\ \A k \in DOMAIN x.val \cap DOMAIN y.val : Rule(r.val[k], x.val[k], y.val[k])

\* The rule for a key of both documents, whose tables hold no further tables.
KeyMerged(r, x, y) ==
    IF x.kind = "table" /\ y.kind = "table"
    THEN TableMerged(r, x, y, LeafMerged)
    ELSE LeafMerged(r, x, y)

\* C20: after merge(other) the document of self is the deep merge of what it
\* was before and of other: keys of only one document are kept unchanged; for
\* a key of both, two tables are merged in the same way, two arrays are
\* concatenated, self's elements first, and any other pair gives other's value.
C20_DeepMerge ==
    config.merges > 0 =>
        TableMerged(config.value, config.base, config.other, KeyMerged)

C20_Witness ==
    /\ config.merges = 1
    /\ config.base = Table([k \in Keys |->
                              IF k = "server"
                              THEN Table([j \in SubKeys |-> Scalar(1)])
                              ELSE Array(<<Scalar(1)>>)])
    /\ config.other = Table([k \in {"items"} |-> Array(<<Scalar(2)>>)])
    /\ config.value = Table([k \in Keys |->
                               IF k = "server"
                               THEN Table([j \in SubKeys |-> Scalar(1)])
                               ELSE Array(<<Scalar(1), Scalar(2)>>)])

\* C21: whatever the interleaving of register and resolve calls of the
\* threads, a resolve::<T>() that has just returned gave the instance of T
\* inserted last if a register of T had completed, and None if no register of
\* T had completed, as for a type that is never registered.
C21_ResolveSeesLastInsert ==
    resolved # NoResolve =>
        LET done == inserted[resolved.type]
        IN IF done = <<>>
           THEN resolved.res = NoInstance
           ELSE resolved.res = done[Len(done)]

\* Two registers of TestProvider completed, a third one is between its two
\* steps on the other thread, and resolve returned the second instance.
C21_Witness ==
    /\ inserted["TestProvider"] = <<"test_0", "test_1">>
    /\ resolved = [thread |-> 1, type |-> "TestProvider", res |-> "test_1"]
    /\ pending[2] = [type |-> "TestProvider", name |-> "test_0"]

\* C22: add_layer(layer) on a chain whose tail is old_tail sets old_tail's
\* upper link to layer and layer's lower link to old_tail, makes layer the
\* tail and leaves the head alone; both layers are alive afterwards, every
\* other layer that is still there keeps its two links, and so do the other
\* link of old_tail and of layer when the two are different layers.
C22_AddLayerLinksTail ==
    [][ (Len(added') = Len(added) + 1 /\ tail # None) =>
          LET layer == added'[Len(added')]
          IN /\ up_layer'[tail] = layer
             /\ lo_layer'[layer] = tail
             /\ tail' = layer
             /\ head' = head
             /\ {tail, layer} \subseteq alive'
             /\ \A l \in alive' \ {tail, layer} :
                    lo_layer'[l] = lo_layer[l] /\ up_layer'[l] = up_layer[l]
             /\ tail # layer =>
                    /\ lo_layer'[tail] = lo_layer[tail]
                    /\ up_layer'[layer] = up_layer[layer] ]_vars

C22_Witness ==
    /\ chain = "live"
    /\ Len(added) = 2
    /\ added[1] # added[2]
    /\ head = added[1]
    /\ tail = added[2]
    /\ up_layer[added[1]] = added[2]
    /\ lo_layer[added[2]] = added[1]

\* C23: add_layer(layer) on an empty chain makes layer the head and the tail
\* and leaves it with no lower and no upper link, whatever its links were.
C23_FirstLayerCleared ==
    [][ (Len(added') = Len(added) + 1 /\ tail = None) =>
          LET layer == added'[Len(added')]
          IN /\ head' = layer
             /\ tail' = layer
             /\ lo_layer'[layer] = None
             /\ up_layer'[layer] = None ]_vars

\* The first layer of a second chain has no links, while the layer that was
\* added after it in the former chain still has it as its lower neighbour.
C23_Witness ==
    /\ chain = "live"
    /\ Len(added) = 1
    /\ head = added[1]
    /\ tail = added[1]
    /\ lo_layer[added[1]] = None
    /\ up_layer[added[1]] = None
    /\ \E b \in alive : b # added[1] /\ lo_layer[b] = added[1]

\* C24: in every reachable chain state a layer holds a strong reference only
\* to the neighbour added before it: the layer it owns through its lower link
\* is never its upper neighbour.
C24_NoStrongUpper ==
    \A l \in alive : up_layer[l] # None => lo_layer[l] # up_layer[l]

\* Following lower links from layer l reaches a layer without a lower link
\* within n steps.
RECURSIVE LowerEnds(_, _)
LowerEnds(l, n) ==
    IF lo_layer[l] = None THEN TRUE
    ELSE IF n = 0 THEN FALSE
    ELSE LowerEnds(lo_layer[l], n - 1)

\* C25: after any sequence of add_layer calls, also of layers already in the
\* chain, following lower links from the tail reaches a layer with no lower
\* link; NumLayers steps are enough where there is no cycle.
C25_NoLowerCycle ==
    tail # None => LowerEnds(tail, NumLayers)

\* C26 as first stated, here for chains of pairwise distinct layers only: in a
\* non-empty chain the head is the first layer added and has no upper
\* neighbour, the tail is the last layer added and has no lower neighbour; in
\* the empty chain head and tail are absent.
C26_Original ==
    /\ (chain = "live" /\ Len(added) >= 1 /\ DistinctAdds) =>
           /\ head = added[1]
           /\ up_layer[head] = None
           /\ tail = added[Len(added)]
           /\ lo_layer[tail] = None
    /\ (chain = "live" /\ added = <<>>) => (head = None /\ tail = None)

\* C26: in a chain built by adding pairwise distinct, freshly built layers the
\* head is the first layer added and has no lower neighbour, the tail is the
\* last layer added and has no upper neighbour; with two layers or more the
\* head's upper neighbour is the second layer and the tail's lower neighbour
\* the layer added before it. In the empty chain head and tail are absent.
C26_HeadBottomTailTop ==
    /\ (chain = "live" /\ Len(added) >= 1 /\ DistinctAdds) =>
           /\ head = added[1]
           /\ lo_layer[head] = None
           /\ tail = added[Len(added)]
           /\ up_layer[tail] = None
           /\ Len(added) >= 2 =>
                  /\ up_layer[head] = added[2]
                  /\ lo_layer[tail] = added[Len(added) - 1]
    /\ (chain = "live" /\ added = <<>>) => (head = None /\ tail = None)

C26_Witness ==
    /\ chain = "live"
    /\ Len(added) = 2
    /\ DistinctAdds
    /\ held = {}
    /\ head = added[1]
    /\ tail = added[2]
    /\ lo_layer[head] = None
    /\ up_layer[head] = tail
    /\ lo_layer[tail] = head
    /\ up_layer[tail] = None

\* The layers of the current chain.
InChain == {added[i] : i \in 1..Len(added)}

\* The place of a layer of the chain in the order of the add_layer calls.
Position(l) == CHOOSE i \in 1..Len(added) : added[i] = l

\* One call of the last dispatch handed its result to a neighbour.
Hops == 1..(Len(calls) - 1)

StructureChanges ==
    \/ head' # head
    \/ tail' # tail
    \/ \E l \in alive \cap alive' :
           lo_layer'[l] # lo_layer[l] \/ up_layer'[l] # up_layer[l]

\* C28: a dispatch, through the chain or on a layer, successful or failed,
\* leaves head, tail and every layer's lower and upper link as they were; a
\* step that changes any of them is an add_layer call or the drop of the chain.
C28_DispatchReadOnly ==
    [][/\ entry' # NoEntry => UNCHANGED <<head, tail, lo_layer, up_layer, alive>>
       /\ StructureChanges => (added' # added \/ chain' = "dropped")]_vars

C28_Witness ==
    /\ TwoLayerChain
    /\ entry.op = "chain_inbound"
    /\ Len(calls) = 2
    /\ ret.tag = "Err"
    /\ head = added[1]
    /\ tail = added[2]
    /\ up_layer[head] = tail
    /\ lo_layer[tail] = head

\* The calls of the last dispatch agree with one assignment of outcomes to
\* handlers: a handler asked twice answered the same way both times.
FixedHandlers ==
    \A i, j \in 1..Len(calls) :
        (calls[i].layer = calls[j].layer /\ calls[i].kind = calls[j].kind) =>
            /\ calls[i].out.tag = calls[j].out.tag
            /\ calls[i].out.tag = "Ok" =>
                   calls[i].out.direction = calls[j].out.direction

\* The call the last dispatch was about to make when it was left: the layer
\* and method the last call's result is handed to.
NextCall ==
    LET last == calls[Len(calls)]
    IN IF last.out.direction = "Inbound"
       THEN [layer |-> up_layer[last.layer], kind |-> "inbound"]
       ELSE [layer |-> lo_layer[last.layer], kind |-> "outbound"]

\* The dispatch is about to ask a handler it has already asked: with fixed
\* handlers it repeats the calls made since then without end.
Cycling ==
    /\ ret = Pending
    /\ \E i \in 1..Len(calls) :
           calls[i].layer = NextCall.layer /\ calls[i].kind = NextCall.kind

\* C29: on a chain of distinct layers whose handlers each answer with a fixed
\* direction, no dispatch comes back to a handler it has already asked (so
\* every dispatch returns after finitely many hops).
C29_NoCycle ==
    (entry # NoEntry /\ chain = "live" /\ DistinctAdds /\ FixedHandlers) => ~Cycling

\* The values a caller receives for the other two kinds of dispatch failure.
OtherFailures ==
    {Err("No layers in the chain"), HandlerError("inbound"), HandlerError("outbound")}

\* C30: a dispatch that failed because a layer's upper link had expired
\* returns an error value that is neither the empty-chain error nor the error
\* of a failed user handler.
C30_BrokenLinkDistinct ==
    \A i \in 1..Len(calls) :
        (Returns(i, "Inbound") /\ UpperExpired(i)) => ret \notin OtherFailures

\* C31: when a handler reached during a dispatch fails, it is the last handler
\* invoked, every call of the dispatch still open at that point returns an
\* error, and so does the dispatch; a dispatch that returns Ok invoked only
\* handlers that returned Ok.
C31_FailurePropagates ==
    /\ \A i \in 1..Len(calls) :
           calls[i].out.tag = "Err" =>
               /\ i = Len(calls)
               /\ \A j \in 1..i : calls[j].val.tag = "Err"
               /\ calls[1].val = calls[i].val
               /\ ret.tag = "Err"
    /\ ret.tag = "Ok" => \A i \in 1..Len(calls) : calls[i].out.tag = "Ok"

C31_Witness ==
    /\ TwoLayerChain
    /\ entry.op \in ChainOps
    /\ Len(calls) = 3
    /\ calls[1].out.tag = "Ok"
    /\ calls[2].out.tag = "Ok"
    /\ calls[3].out.tag = "Err"
    /\ calls[1].val.tag = "Err"
    /\ ret = calls[3].val

\* The entries of queue q are the latest n of the entries of log, in the order
\* of the log.
LatestOf(q, log) ==
    /\ Len(q) <= Len(log)
    /\ q = SubSeq(log, Len(log) - Len(q) + 1, Len(log))

\* The items passed to send() so far, in the order of the calls.
ItemsSent == [i \in 1..data_sent |-> i]

\* What waits in the two channels is, in order, what went in last: every entry
\* that left a channel was older than every entry still in it.
Fifo ==
    /\ LatestOf(events, emitted)
    /\ pc # "exited" => LatestOf(data_q, ItemsSent)

\* C32: receive calls take events in the order the unit enqueued them and the
\* task body takes data items in the order send() passed them; a send() made
\* while the unit has not exited returns () at once with the item appended to
\* the data channel, and an item leaves the channel of a unit that has not
\* exited only when the body takes it, oldest first.
C32_ChannelsFifo ==
    [][ /\ Fifo'
        /\ (data_sent' = data_sent + 1 /\ pc # "exited") =>
               /\ data_q' = Append(data_q, data_sent')
               /\ last_call'.res = "unit"
        /\ (pc' # "exited" /\ data_q' # data_q /\ data_sent' = data_sent) =>
               /\ pc = "body"
               /\ data_q = <<Head(data_q)>> \o data_q' ]_vars

C32_Witness ==
    /\ pc = "body"
    /\ data_sent = 2
    /\ data_q = <<2>>
    /\ Len(emitted) = 2
    /\ emitted[1] # emitted[2]
    /\ events = <<emitted[2]>>

\* cancel() was called on a JobTask of the supervisor, or one was dropped.
SomeCancelled == \E j \in Jobs : job[j] \in {"taken", "dropped"}

\* C33: the cancellation flag is false until the first cancel() or drop on a
\* JobTask of the supervisor and true from then on; once true it stays true,
\* and a step that is neither a cancel nor a drop (a send, a receive, a clone,
\* a step of the unit) leaves it as it is.
C33_FlagSetOnce ==
    [][ /\ is_cancelled' = SomeCancelled'
        /\ is_cancelled => is_cancelled'
        /\ (\A j \in Jobs : job'[j] = job[j] \/ job[j] = "absent") =>
               is_cancelled' = is_cancelled ]_vars

C33_Witness ==
    /\ is_cancelled
    /\ job = <<"dropped", "some">>
    /\ pc = "exited"
    /\ body_result = "Ok"
    /\ data_sent = 1
    /\ last_call.op = "recv"

\* Every handler invoked in the last dispatch returned Ok with this direction.
AllReturn(direction) == \A i \in 1..Len(calls) : Returns(i, direction)

\* The last dispatch called method kind of the layers in the order given by
\* layerAt, each exactly once, each with the data of the result before it, and
\* returned the result of the last handler.
Pipeline(kind, layerAt(_)) ==
    /\ Len(calls) = Len(added)
    /\ \A i \in 1..Len(calls) :
           /\ calls[i].layer = layerAt(i)
           /\ calls[i].kind = kind
           /\ calls[i].req = (IF i = 1 THEN entry.req ELSE calls[i - 1].out.data)
    /\ ret = calls[Len(calls)].out

\* No layer is its own neighbour, as a layer added twice in a row would be.
NoSelfLink == \A l \in alive : lo_layer[l] # l /\ up_layer[l] # l

\* C34: in a chain of distinct layers, a LayerChain::handle_inbound in which
\* every handler invoked returns Inbound runs the inbound handlers of all
\* layers once each in order of addition and returns the result of the
\* last-added layer; a LayerChain::handle_outbound in which every handler
\* invoked returns Outbound runs the outbound handlers of all layers once each
\* in reverse order of addition and returns the result of the first-added
\* layer; each handler is given the data of the result before it.
C34_PipelineOrder ==
    (chain = "live" /\ added # <<>> /\ DistinctAdds /\ NoSelfLink) =>
        /\ (entry.op = "chain_inbound" /\ AllReturn("Inbound")) =>
               Pipeline("inbound", LAMBDA i : added[i])
        /\ (entry.op = "chain_outbound" /\ AllReturn("Outbound")) =>
               Pipeline("outbound", LAMBDA i : added[Len(added) + 1 - i])

\* C35: while the chain is alive and was built from pairwise distinct, freshly
\* built layers, the tail's handle and the lower links alone keep every layer
\* of the chain alive, whatever handles the caller has dropped; so every upper
\* link upgrades, no call of a dispatch started through the chain meets an
\* expired upper link, and such a dispatch fails only where a handler failed.
C35_ChainKeepsLayers ==
    (chain = "live" /\ added # <<>> /\ DistinctAdds) =>
        /\ Sweep(InChain, {}, None, tail, lo_layer) = InChain
        /\ InChain \subseteq alive
        /\ \A l \in InChain : up_layer[l] # None => Upgrade(up_layer[l]) # None
        /\ entry.op \in ChainOps =>
               /\ \A i \in 1..Len(calls) : ~UpperExpired(i)
               /\ ret.tag = "Err" => calls[Len(calls)].out.tag = "Err"

C35_Witness ==
    /\ TwoLayerChain
    /\ held = {}
    /\ entry.op = "chain_inbound"
    /\ Len(calls) = 2
    /\ Returns(1, "Inbound")
    /\ calls[2].layer = up_layer[calls[1].layer]
    /\ Returns(2, "Inbound")
    /\ ret.tag = "Ok"

\* A Cancelled event is in the event stream (the task body of the model sends
\* none, so it is the unit's).
CancelledEmitted == \E i \in 1..Len(emitted) : emitted[i] = "Cancelled"

\* C36: a Cancelled event of the unit is in the stream only if the unit found
\* the flag set before it started the task body: the flag is set, the unit has
\* exited, the body was never run and sent nothing, and the stream holds no
\* Done and no Panic; once the body has been started no Cancelled is enqueued.
C36_CancelledOnlyUnstarted ==
    /\ CancelledEmitted =>
           /\ is_cancelled
           /\ pc = "exited"
           /\ body_result = "none"
           /\ body_sends = 0
           /\ \A i \in 1..Len(emitted) : emitted[i] \notin {"Done", "Panic"}
    /\ (pc = "body" \/ body_result # "none") => ~CancelledEmitted

C36_Witness ==
    /\ CancelledEmitted
    /\ job = <<"dropped", "some">>
    /\ events = <<>>
    /\ last_call = [op |-> "recv", saw |-> "event", res |-> "Some"]

\* C37: the JobTask values of one supervisor share the flag, the unit and the
\* channels. A cancel() or drop of any one of them that changes it sets the
\* shared flag and, when that value still holds its handle, calls
\* coroutine().cancel() on the shared unit, while every other clone stays as it
\* is and can go on receiving; and a receive that returns an event takes it out
\* of the one shared queue, so no other receive call returns it again.
C37_ClonesShare ==
    [][ /\ \A j \in Jobs :
               (job[j] \in {"some", "taken"} /\ job'[j] # job[j]) =>
                   /\ is_cancelled'
                   /\ job[j] = "some" =>
                          /\ force_calls' = force_calls + 1
                          /\ pc # "exited" => forced'
                   /\ \A k \in Jobs \ {j} : job'[k] = job[k]
                   /\ UNCHANGED <<pc, emitted>>
        /\ (last_call'.op \in ReceiveOps /\ last_call'.res = "Some") =>
               /\ events # <<>>
               /\ events = <<Head(events)>> \o events'
               /\ emitted' = emitted
        /\ Len(events') <= Len(emitted') ]_vars

C37_Witness ==
    /\ job = <<"taken", "some">>
    /\ is_cancelled
    /\ forced
    /\ force_calls = 1
    /\ pc = "body"
    /\ emitted = <<"Data", "Progress">>
    /\ events = <<"Progress">>
    /\ last_call = [op |-> "try_recv", saw |-> "event", res |-> "Some"]

\* The unit has finished and every event was taken, with a JobTask still alive.
Drained == LiveJobs # {} /\ pc = "exited" /\ events = <<>>

\* C38: while a JobTask is alive the event channel is not closed. Once the
\* unit has finished and the events were drained, recv() finds an empty open
\* channel and waits, try_recv() finds it empty and returns None, and nothing
\* is enqueued any more, so the wait does not end while a JobTask stays alive;
\* no receive call of a live JobTask ever finds the channel closed, and recv()
\* never returns None.
C38_ChannelStaysOpen ==
    [][ /\ LiveJobs' # {} => ~EventChannelClosed'
        /\ Drained' =>
               /\ Found("recv")' = "waiting"
               /\ Found("try_recv")' = "empty"
        /\ (Drained /\ LiveJobs' # {}) => Drained'
        /\ last_call'.op \in ReceiveOps => last_call'.saw # "closed"
        /\ last_call'.op = "recv" => last_call'.res = "Some" ]_vars

C38_Witness ==
    /\ Drained
    /\ Len(emitted) = 2
    /\ emitted[2] = "Done"
    /\ job = <<"some", "absent">>
    /\ last_call = [op |-> "try_recv", saw |-> "empty", res |-> "None"]

\* The events the task body sent, as the stream recorded them.
BodyPart == SubSeq(emitted, 1, body_sends)

\* C39: when the task body has returned normally (catch_unwind gave Ok, forced
\* termination did not get in first) the stream is what the body sent, Error
\* events included, followed by the unit's Done as its last event; and when the
\* body has ended, by return or fault, and nobody cancelled, the stream ends
\* with the unit's Done or Panic, which waits in the queue unless a receive
\* call already took it.
C39_DoneClosesRun ==
    /\ (body_result = "Ok" /\ LiveJobs # {}) =>
           /\ pc = "exited"
           /\ emitted = BodyPart \o <<"Done">>
    /\ (body_result # "none" /\ ~is_cancelled) =>
           /\ emitted # <<>>
           /\ emitted[Len(emitted)] = (IF body_result = "Ok" THEN "Done" ELSE "Panic")
           /\ events = <<>> \/ events[Len(events)] = emitted[Len(emitted)]
           /\ LatestOf(events, emitted)

C39_Witness ==
    /\ body_result = "Ok"
    /\ ~is_cancelled
    /\ emitted = <<"Error", "Done">>
    /\ events = <<"Done">>
    /\ last_call.res = "Some"

====
